---------------------------- MODULE Spec2Model ----------------------------
(***************************************************************************)
(* EchoSignRealtime: the sentence window buffer (SentencePredictor), its   *)
(* KNN classifier and the mode controller of loop().                       *)
(*                                                                         *)
(* Five specifications share the variables:                                *)
(*   Spec          the firmware: the state after setup(), then loop()      *)
(*                 ticks (src/src/main.cpp);                               *)
(*   SpecPredictor the SentencePredictor object under any sequence of its  *)
(*                 public calls and of time steps                          *)
(*                 (src/src/sentence_predictor.h);                         *)
(*   SpecWindow    the object driven as the sentence path of loop()        *)
(*                 drives it, tick after tick, with fairness;              *)
(*   SpecKNN       one run of predictSentenceKNN over a query and a        *)
(*                 reference table, one row per step;                      *)
(*   SpecCorruptTable  the same run over a table whose label entries are   *)
(*                 arbitrary bytes.                                        *)
(*                                                                         *)
(* Time is millis(): a uint32_t that only grows.  Every difference the     *)
(* code takes is now - earlier with earlier <= now, so unsigned            *)
(* subtraction is the plain difference for any uptime below 2^32 ms; the   *)
(* model stops the clock at MaxTime, far below that.                       *)
(*                                                                         *)
(* The window constants are scaled down (80 samples, 4000 ms, 50 ms in     *)
(* the source), keeping (samples - 1) * interval < duration, so that a     *)
(* well-spaced stream fills the window before the duration elapses.  A     *)
(* SensorSample (12 floats) is one scalar; the all-zero sample of memset   *)
(* is 0.  Distances are integers (the integer square root); the            *)
(* confidence is computed in a float of FLT_MANT_DIG significand bits,     *)
(* rounding to nearest, ties to even.                                      *)
(***************************************************************************)
EXTENDS Integers, Sequences, FiniteSets, TLC

\* ------------------------------------------------------------ bounds
\* SENTENCE_SAMPLES_PER_WINDOW, scaled (80 in the source).
SENTENCE_SAMPLES_PER_WINDOW == 3
\* SENTENCE_SAMPLE_INTERVAL_MS, scaled (50 in the source).
SENTENCE_SAMPLE_INTERVAL_MS == 2
\* SENTENCE_WINDOW_DURATION_MS, scaled (4000 in the source).
SENTENCE_WINDOW_DURATION_MS == 9
\* DEBOUNCE_DELAY_MS, scaled (50 in the source).
DEBOUNCE_DELAY_MS == 2
\* The clock runs from SETUP_DELAY_MS to SETUP_DELAY_MS + Horizon.
Horizon == 14
\* The longest time one step lets pass.
MaxStep == 3
\* Sample values are 1..MaxSample (0 is the zeroed sample).
MaxSample == 1
\* At most MaxCalls addSample calls are counted per window.
MaxCalls == 5

\* setup() ends after delay(2000): no call is made before that.
SETUP_DELAY_MS == 2000

\* SENTENCE_KNN_N_NEIGHBORS (K), SENTENCE_KNN_N_SAMPLES (N) and
\* SENTENCE_NUM_CLASSES of the generated sentence_knn_model.h, scaled.
SENTENCE_KNN_N_NEIGHBORS == 2
SENTENCE_KNN_N_SAMPLES == 3
SENTENCE_NUM_CLASSES == 2
\* The reference table holds feature values 0..MaxTrain.
MaxTrain == 1

\* The significand of a float, scaled (FLT_MANT_DIG is 24 for the binary32
\* float of the source).
FLT_MANT_DIG == 3

\* nearestDist[i] = 1e9, and the distance predict() reports when not filled.
INITIAL_DIST == 1000000000
NOT_FILLED_DISTANCE == 999999

MaxTime == SETUP_DELAY_MS + Horizon
SampleValues == 1..MaxSample
BufferIndices == 0..(SENTENCE_SAMPLES_PER_WINDOW - 1)

\* One feature per sample: the flattened window has one entry per sample.
SENTENCE_NUM_FEATURES == SENTENCE_SAMPLES_PER_WINDOW
SENTENCE_KNN_N_FEATURES == SENTENCE_NUM_FEATURES
FeatureIndices == 1..SENTENCE_KNN_N_FEATURES
NeighborIndices == 1..SENTENCE_KNN_N_NEIGHBORS
Labels == 0..(SENTENCE_NUM_CLASSES - 1)
TrainingRows == [FeatureIndices -> 0..MaxTrain]
\* The values a uint8_t entry of SENTENCE_TRAINING_LABELS can hold: the class
\* indices, and SENTENCE_NUM_CLASSES for every value that is none.
LabelBytes == 0..SENTENCE_NUM_CLASSES

VARIABLES
    sp,                  \* the SentencePredictor object (its private fields)
    now,                 \* millis()
    op,                  \* SpecPredictor: the last call made on sp
    ret,                 \* SpecPredictor: what the last addSample returned
    out,                 \* SpecPredictor: what the last predict() returned
    prog,                \* what the last getRecordingProgress() returned, if
                         \*   it was the last call (SpecWindow: the progress
                         \*   the tick reads after addSample)
    win,                 \* SpecPredictor: what happened since startRecording
    knn,                 \* SpecKNN: the locals of predictSentenceKNN
    gRecordingActive,    \* main.cpp: set by the serial commands S and E
    sentenceModeActive,  \* main.cpp
    lastButtonState,     \* main.cpp
    lastDebounceTime,    \* main.cpp
    tick,                \* Spec: what the last loop() call did
    press                \* Spec: the button as the ticks have read it

objVars == <<sp, now, op, ret, out, prog, win, knn>>
ctlVars == <<gRecordingActive, sentenceModeActive, lastButtonState, lastDebounceTime,
             tick, press>>
vars == <<sp, now, op, ret, out, prog, win, knn, gRecordingActive, sentenceModeActive,
          lastButtonState, lastDebounceTime, tick, press>>

\* The pin levels: the button pulls the pin LOW when pressed.
HIGH == TRUE
LOW == FALSE

\* ------------------------------------------------ SentencePredictor

\* The constructor; buffer is a static object's member, hence zeroed.
SentencePredictor ==
    [ buffer             |-> [t \in BufferIndices |-> 0],
      bufferIndex        |-> 0,
      lastSampleTime     |-> 0,
      bufferFilled       |-> FALSE,
      isRecording        |-> FALSE,
      recordingStartTime |-> 0 ]

\* startRecording that forgets bufferFilled = false.
startRecording_KeepsFilled(s, millis) ==
    [ s EXCEPT !.isRecording        = TRUE,
               !.recordingStartTime = millis,
               !.bufferIndex        = 0,
               !.buffer             = [t \in BufferIndices |-> 0] ]

\* startRecording without the memset of the buffer.
startRecording_NoClear(s, millis) ==
    [ s EXCEPT !.isRecording        = TRUE,
               !.recordingStartTime = millis,
               !.bufferIndex        = 0,
               !.bufferFilled       = FALSE ]

startRecording(s, millis) ==
    [ s EXCEPT !.isRecording        = TRUE,
               !.recordingStartTime = millis,
               !.bufferIndex        = 0,
               !.bufferFilled       = FALSE,
               !.buffer             = [t \in BufferIndices |-> 0] ]

recording(s) == s.isRecording

\* buffer[bufferIndex] = sample: a write past the array is a write to
\* whatever object follows it; the model keeps it out of buffer.
StoreSample(s, sample) ==
    IF s.bufferIndex \in BufferIndices
    THEN [s.buffer EXCEPT ![s.bufferIndex] = sample]
    ELSE s.buffer

\* addSample with the capacity test written > instead of >=.
addSample_CapacityOffByOne(s, millis, sample) ==
    IF ~s.isRecording
    THEN [obj |-> s, result |-> FALSE]
    ELSE IF millis - s.lastSampleTime < SENTENCE_SAMPLE_INTERVAL_MS
    THEN [obj |-> s, result |-> FALSE]
    ELSE LET stored == [ s EXCEPT !.buffer         = StoreSample(s, sample),
                                  !.lastSampleTime = millis,
                                  !.bufferIndex    = (s.bufferIndex + 1) % 256 ]
         IN  IF stored.bufferIndex > SENTENCE_SAMPLES_PER_WINDOW
             THEN [ obj    |-> [stored EXCEPT !.bufferFilled = TRUE,
                                              !.isRecording  = FALSE],
                    result |-> TRUE ]
             ELSE IF millis - stored.recordingStartTime >= SENTENCE_WINDOW_DURATION_MS
             THEN [ obj    |-> [stored EXCEPT !.bufferFilled = TRUE,
                                              !.isRecording  = FALSE],
                    result |-> TRUE ]
             ELSE [obj |-> stored, result |-> FALSE]

\* addSample with the duration test written > instead of >=.
addSample_DurationOffByOne(s, millis, sample) ==
    IF ~s.isRecording
    THEN [obj |-> s, result |-> FALSE]
    ELSE IF millis - s.lastSampleTime < SENTENCE_SAMPLE_INTERVAL_MS
    THEN [obj |-> s, result |-> FALSE]
    ELSE LET stored == [ s EXCEPT !.buffer         = StoreSample(s, sample),
                                  !.lastSampleTime = millis,
                                  !.bufferIndex    = (s.bufferIndex + 1) % 256 ]
         IN  IF stored.bufferIndex >= SENTENCE_SAMPLES_PER_WINDOW
             THEN [ obj    |-> [stored EXCEPT !.bufferFilled = TRUE,
                                              !.isRecording  = FALSE],
                    result |-> TRUE ]
             ELSE IF millis - stored.recordingStartTime > SENTENCE_WINDOW_DURATION_MS
             THEN [ obj    |-> [stored EXCEPT !.bufferFilled = TRUE,
                                              !.isRecording  = FALSE],
                    result |-> TRUE ]
             ELSE [obj |-> stored, result |-> FALSE]

\* addSample with the spacing test written <= instead of <.
addSample_SpacingOffByOne(s, millis, sample) ==
    IF ~s.isRecording
    THEN [obj |-> s, result |-> FALSE]
    ELSE IF millis - s.lastSampleTime <= SENTENCE_SAMPLE_INTERVAL_MS
    THEN [obj |-> s, result |-> FALSE]
    ELSE LET stored == [ s EXCEPT !.buffer         = StoreSample(s, sample),
                                  !.lastSampleTime = millis,
                                  !.bufferIndex    = (s.bufferIndex + 1) % 256 ]
         IN  IF stored.bufferIndex >= SENTENCE_SAMPLES_PER_WINDOW
             THEN [ obj    |-> [stored EXCEPT !.bufferFilled = TRUE,
                                              !.isRecording  = FALSE],
                    result |-> TRUE ]
             ELSE IF millis - stored.recordingStartTime >= SENTENCE_WINDOW_DURATION_MS
             THEN [ obj    |-> [stored EXCEPT !.bufferFilled = TRUE,
                                              !.isRecording  = FALSE],
                    result |-> TRUE ]
             ELSE [obj |-> stored, result |-> FALSE]

\* addSample whose duration fallback forgets isRecording = false.
addSample_FallbackKeepsRecording(s, millis, sample) ==
    IF ~s.isRecording
    THEN [obj |-> s, result |-> FALSE]
    ELSE IF millis - s.lastSampleTime < SENTENCE_SAMPLE_INTERVAL_MS
    THEN [obj |-> s, result |-> FALSE]
    ELSE LET stored == [ s EXCEPT !.buffer         = StoreSample(s, sample),
                                  !.lastSampleTime = millis,
                                  !.bufferIndex    = (s.bufferIndex + 1) % 256 ]
         IN  IF stored.bufferIndex >= SENTENCE_SAMPLES_PER_WINDOW
             THEN [ obj    |-> [stored EXCEPT !.bufferFilled = TRUE,
                                              !.isRecording  = FALSE],
                    result |-> TRUE ]
             ELSE IF millis - stored.recordingStartTime >= SENTENCE_WINDOW_DURATION_MS
             THEN [ obj    |-> [stored EXCEPT !.bufferFilled = TRUE],
                    result |-> TRUE ]
             ELSE [obj |-> stored, result |-> FALSE]

\* addSample whose dropped call restarts the spacing (lastSampleTime = now).
addSample_DropRestartsSpacing(s, millis, sample) ==
    IF ~s.isRecording
    THEN [obj |-> s, result |-> FALSE]
    ELSE IF millis - s.lastSampleTime < SENTENCE_SAMPLE_INTERVAL_MS
    THEN [obj |-> [s EXCEPT !.lastSampleTime = millis], result |-> FALSE]
    ELSE LET stored == [ s EXCEPT !.buffer         = StoreSample(s, sample),
                                  !.lastSampleTime = millis,
                                  !.bufferIndex    = (s.bufferIndex + 1) % 256 ]
         IN  IF stored.bufferIndex >= SENTENCE_SAMPLES_PER_WINDOW
             THEN [ obj    |-> [stored EXCEPT !.bufferFilled = TRUE,
                                              !.isRecording  = FALSE],
                    result |-> TRUE ]
             ELSE IF millis - stored.recordingStartTime >= SENTENCE_WINDOW_DURATION_MS
             THEN [ obj    |-> [stored EXCEPT !.bufferFilled = TRUE,
                                              !.isRecording  = FALSE],
                    result |-> TRUE ]
             ELSE [obj |-> stored, result |-> FALSE]

\* addSample: the object after the call and the value returned.
addSample(s, millis, sample) ==
    IF ~s.isRecording
    THEN [obj |-> s, result |-> FALSE]
    ELSE IF millis - s.lastSampleTime < SENTENCE_SAMPLE_INTERVAL_MS
    THEN [obj |-> s, result |-> FALSE]
    ELSE LET stored == [ s EXCEPT !.buffer         = StoreSample(s, sample),
                                  !.lastSampleTime = millis,
                                  !.bufferIndex    = (s.bufferIndex + 1) % 256 ]
         IN  IF stored.bufferIndex >= SENTENCE_SAMPLES_PER_WINDOW
             THEN [ obj    |-> [stored EXCEPT !.bufferFilled = TRUE,
                                              !.isRecording  = FALSE],
                    result |-> TRUE ]
             ELSE IF millis - stored.recordingStartTime >= SENTENCE_WINDOW_DURATION_MS
             THEN [ obj    |-> [stored EXCEPT !.bufferFilled = TRUE,
                                              !.isRecording  = FALSE],
                    result |-> TRUE ]
             ELSE [obj |-> stored, result |-> FALSE]

reset(s) ==
    [ s EXCEPT !.bufferIndex  = 0,
               !.bufferFilled = FALSE,
               !.isRecording  = FALSE ]

\* getRecordingProgress without the min: elapsed / SENTENCE_WINDOW_DURATION_MS.
getRecordingProgress_NoClamp(s, millis) ==
    IF ~s.isRecording
    THEN [num |-> 0, den |-> SENTENCE_WINDOW_DURATION_MS]
    ELSE [num |-> millis - s.recordingStartTime, den |-> SENTENCE_WINDOW_DURATION_MS]

\* min(1.0f, elapsed / SENTENCE_WINDOW_DURATION_MS) as the fraction num / den.
getRecordingProgress(s, millis) ==
    IF ~s.isRecording
    THEN [num |-> 0, den |-> SENTENCE_WINDOW_DURATION_MS]
    ELSE LET elapsed == millis - s.recordingStartTime
         IN  [ num |-> IF elapsed < SENTENCE_WINDOW_DURATION_MS
                       THEN elapsed ELSE SENTENCE_WINDOW_DURATION_MS,
               den |-> SENTENCE_WINDOW_DURATION_MS ]

\* features[idx++] = buffer[t]: sample-major, one feature per sample.
Flatten(buffer) == [d \in FeatureIndices |-> buffer[d - 1]]

\* The scaler of the generated sentence_scaler_params.h: (x - mean) / scale
\* per feature, here with mean 1 and scale 1.
ScalerMean(d) == 1
ScalerScale(d) == 1
standardizeSentenceFeatures(features) ==
    [d \in FeatureIndices |-> (features[d] - ScalerMean(d)) \div ScalerScale(d)]

\* predict without its test of bufferFilled.
predict_NoGuard(s) ==
    [ classified |-> TRUE,
      query      |-> standardizeSentenceFeatures(Flatten(s.buffer)) ]

\* predict: not filled, the sentinel; filled, the query handed to
\* predictSentenceKNN, whose run is the specification SpecKNN.
predict(s) ==
    IF ~s.bufferFilled
    THEN [ classified |-> FALSE, label |-> 0, meanDistance |-> NOT_FILLED_DISTANCE ]
    ELSE [ classified |-> TRUE,
           query      |-> standardizeSentenceFeatures(Flatten(s.buffer)) ]

\* Every query predict can hand over.
Queries ==
    { standardizeSentenceFeatures(Flatten(b)) : b \in [BufferIndices -> 0..MaxSample] }

\* ------------------------------------------------ predictSentenceKNN

\* sqrtf on the sums the model produces: the integer square root.
Sqrtf(x) == CHOOSE r \in 0..x : r * r <= x /\ (r + 1) * (r + 1) > x

RECURSIVE SumSquares(_, _, _)
\* for (d = 0; d < D; d++) dist += diff * diff, from feature d on.
SumSquares(query, row, d) ==
    IF d > SENTENCE_KNN_N_FEATURES
    THEN 0
    ELSE (query[d] - row[d]) * (query[d] - row[d]) + SumSquares(query, row, d + 1)

Distance(query, row) == Sqrtf(SumSquares(query, row, 1))

\* The insertion that never looks for the position: it overwrites the worst.
FindPos_NoScan(nearestDist, dist, pos) == pos

RECURSIVE FindPos_PastEqual(_, _, _)
\* The search written with <=: a new row passes the kept rows of its distance.
FindPos_PastEqual(nearestDist, dist, pos) ==
    IF pos > 1 /\ dist <= nearestDist[pos - 1]
    THEN FindPos_PastEqual(nearestDist, dist, pos - 1)
    ELSE pos

RECURSIVE FindPos(_, _, _)
\* while (pos > 0 && dist < nearestDist[pos - 1]) pos--;  (1-based here)
FindPos(nearestDist, dist, pos) ==
    IF pos > 1 /\ dist < nearestDist[pos - 1]
    THEN FindPos(nearestDist, dist, pos - 1)
    ELSE pos

\* The body of the scan for one row: the kept lists after it.
InsertNeighbor(nearestDist, nearestLabels, dist, label) ==
    IF dist < nearestDist[SENTENCE_KNN_N_NEIGHBORS]
    THEN LET pos == FindPos(nearestDist, dist, SENTENCE_KNN_N_NEIGHBORS)
         IN  [ nearestDist   |-> [j \in NeighborIndices |->
                                    IF j < pos THEN nearestDist[j]
                                    ELSE IF j = pos THEN dist
                                    ELSE nearestDist[j - 1]],
               nearestLabels |-> [j \in NeighborIndices |->
                                    IF j < pos THEN nearestLabels[j]
                                    ELSE IF j = pos THEN label
                                    ELSE nearestLabels[j - 1]] ]
    ELSE [nearestDist |-> nearestDist, nearestLabels |-> nearestLabels]

\* votes[nearestLabels[i]]++ over the K kept labels.
Votes(nearestLabels) ==
    [c \in Labels |-> Cardinality({i \in NeighborIndices : nearestLabels[i] = c})]

RECURSIVE BestLabel_LastMax(_, _, _, _)
\* The vote written with >=: the last of the tied classes wins.
BestLabel_LastMax(votes, i, bestLabel, maxVotes) ==
    IF i >= SENTENCE_NUM_CLASSES
    THEN bestLabel
    ELSE IF votes[i] >= maxVotes
    THEN BestLabel_LastMax(votes, i + 1, i, votes[i])
    ELSE BestLabel_LastMax(votes, i + 1, bestLabel, maxVotes)

RECURSIVE BestLabel(_, _, _, _)
\* for (i = 0; i < SENTENCE_NUM_CLASSES; i++) if (votes[i] > maxVotes) ...
BestLabel(votes, i, bestLabel, maxVotes) ==
    IF i >= SENTENCE_NUM_CLASSES
    THEN bestLabel
    ELSE IF votes[i] > maxVotes
    THEN BestLabel(votes, i + 1, i, votes[i])
    ELSE BestLabel(votes, i + 1, bestLabel, maxVotes)

RECURSIVE SumDist(_, _)
SumDist(nearestDist, i) ==
    IF i > SENTENCE_KNN_N_NEIGHBORS THEN 0
    ELSE nearestDist[i] + SumDist(nearestDist, i + 1)

\* The greatest square of a difference query[d] - train_val.
MaxDiffSquare ==
    LET squares == { (q[d] - v) * (q[d] - v) :
                       q \in Queries, d \in FeatureIndices, v \in 0..MaxTrain }
    IN  CHOOSE m \in squares : \A x \in squares : x <= m

\* The greatest distance a row can have from a query.
MaxDistance == Sqrtf(SENTENCE_KNN_N_FEATURES * MaxDiffSquare)

\* The locals when the scan starts.
KnnStart(query) ==
    [ query         |-> query,
      i             |-> 0,
      nearestDist   |-> [j \in NeighborIndices |-> INITIAL_DIST],
      nearestLabels |-> [j \in NeighborIndices |-> 0],
      dists         |-> << >>,       \* the distances of the rows read so far
      labels        |-> << >>,       \* and their labels
      pc            |-> "scan",
      oob           |-> FALSE,       \* votes[] was indexed outside its bounds
      bestLabel     |-> 0,
      sumDist       |-> 0 ]

\* One iteration of for (i = 0; i < N; i++): dist is the distance of the
\* row read from flash, label its SENTENCE_TRAINING_LABELS entry.
KnnScanRow(k, dist, label) ==
    LET ins == InsertNeighbor(k.nearestDist, k.nearestLabels, dist, label)
    IN  [ k EXCEPT !.i             = k.i + 1,
                   !.nearestDist   = ins.nearestDist,
                   !.nearestLabels = ins.nearestLabels,
                   !.dists         = Append(k.dists, dist),
                   !.labels        = Append(k.labels, label) ]

\* The vote and the mean distance (*outMeanDist = sumDist / K).
KnnFinish(k) ==
    [ k EXCEPT !.pc        = "done",
               !.bestLabel = BestLabel(Votes(k.nearestLabels), 0, 0, 0),
               !.sumDist   = SumDist(k.nearestDist, 1) ]

\* --------------------------------------------------- initial values

NoWindow ==
    [ calls      |-> 0,       \* addSample calls since startRecording
      spaced     |-> 0,       \* those made while recording, an interval or more
                              \*   after the last accepted sample
      trues      |-> 0,       \* those that returned true
      by         |-> "none",  \* how the window completed
      samples    |-> << >>,   \* the samples accepted, in arrival order
      stale      |-> FALSE,   \* a buffer row past the first held a sample of an
                              \*   earlier window when startRecording was called
      accepted   |-> FALSE,   \* a sample was accepted, in any window
      lastAccept |-> 0 ]      \* when the last one was

NoPredict == [ classified |-> FALSE, label |-> 0, meanDistance |-> 0 ]

NoProgress == [num |-> 0, den |-> SENTENCE_WINDOW_DURATION_MS]

InitObject ==
    /\ sp = SentencePredictor
    /\ now = SETUP_DELAY_MS
    /\ op = "none"
    /\ ret = FALSE
    /\ out = NoPredict
    /\ prog = NoProgress
    /\ win = NoWindow

\* No classifier run is in progress.
KnnIdle == KnnStart([d \in FeatureIndices |-> 0])

NoTick ==
    [ ran       |-> FALSE,     \* a loop() call has run
      calls     |-> << >>,     \* the calls it made on sentencePredictor
      records   |-> << >>,     \* the serial records it printed
      recording |-> FALSE,     \* recording() when the route was chosen
      complete  |-> FALSE,     \* windowComplete
      filled    |-> FALSE,     \* bufferFilled when predict was called
      progress  |-> NoProgress,
      sentence  |-> "" ]

NoPress ==
    [ prev    |-> LOW,         \* the reading of the tick before
      active  |-> FALSE,       \* read HIGH, then LOW in every tick since
      since   |-> 0,           \* when it was first read LOW
      last    |-> 0,           \* when it was last read LOW
      idle    |-> FALSE,       \* no recording was active when first read LOW
      started |-> FALSE ]      \* startRecording was called since

\* The globals with sentenceModeActive starting true.
InitController_SentenceActive ==
    /\ gRecordingActive = FALSE
    /\ sentenceModeActive = TRUE
    /\ lastButtonState = HIGH
    /\ lastDebounceTime = 0
    /\ tick = NoTick
    /\ press = NoPress

\* The globals of main.cpp as setup() leaves them.
InitController ==
    /\ gRecordingActive = FALSE
    /\ sentenceModeActive = FALSE
    /\ lastButtonState = HIGH
    /\ lastDebounceTime = 0
    /\ tick = NoTick
    /\ press = NoPress

InitPredictor == InitObject /\ knn = KnnIdle /\ InitController

\* -------------------------------------- SpecPredictor: calls on the object

\* Time passes between calls.
Advance ==
    \E d \in 1..MaxStep :
        /\ now + d <= MaxTime
        /\ now' = now + d
        /\ op' = "time"
        /\ ret' = FALSE
        /\ prog' = NoProgress
        /\ UNCHANGED <<sp, out, win, knn>>
        /\ UNCHANGED ctlVars

StartRecording ==
    /\ sp' = startRecording(sp, now)
    /\ op' = "startRecording"
    /\ ret' = FALSE
    /\ win' = [ NoWindow EXCEPT
                  !.accepted   = win.accepted,
                  !.lastAccept = win.lastAccept,
                  !.stale      = \E t \in BufferIndices : t >= 1 /\ sp.buffer[t] # 0 ]
    /\ prog' = NoProgress
    /\ UNCHANGED <<now, out, knn>>
    /\ UNCHANGED ctlVars

AddSample ==
    \E sample \in SampleValues :
        LET r        == addSample(sp, now, sample)
            isSpaced == sp.isRecording
                          /\ (win.accepted => now - win.lastAccept >= SENTENCE_SAMPLE_INTERVAL_MS)
            advanced == r.obj.bufferIndex # sp.bufferIndex
        IN  /\ win.calls < MaxCalls
            /\ sp' = r.obj
            /\ ret' = r.result
            /\ op' = "addSample"
            /\ win' = [ win EXCEPT
                          !.calls      = @ + 1,
                          !.spaced     = IF isSpaced THEN @ + 1 ELSE @,
                          !.trues      = IF r.result THEN @ + 1 ELSE @,
                          !.by         = IF ~r.result THEN @
                                         ELSE IF r.obj.bufferIndex >= SENTENCE_SAMPLES_PER_WINDOW
                                         THEN "capacity" ELSE "duration",
                          !.samples    = IF advanced THEN Append(@, sample) ELSE @,
                          !.accepted   = @ \/ advanced,
                          !.lastAccept = IF advanced THEN now ELSE @ ]
            /\ prog' = NoProgress
            /\ UNCHANGED <<now, out, knn>>
            /\ UNCHANGED ctlVars

Predict ==
    /\ out' = predict(sp)
    /\ op' = "predict"
    /\ ret' = FALSE
    /\ prog' = NoProgress
    /\ UNCHANGED <<sp, now, win, knn>>
    /\ UNCHANGED ctlVars

\* getRecordingProgress(): a const member, the object is left as it was.
GetRecordingProgress ==
    /\ prog' = getRecordingProgress(sp, now)
    /\ op' = "getRecordingProgress"
    /\ ret' = FALSE
    /\ UNCHANGED <<sp, now, out, win, knn>>
    /\ UNCHANGED ctlVars

Reset ==
    /\ sp' = reset(sp)
    /\ op' = "reset"
    /\ ret' = FALSE
    /\ prog' = NoProgress
    /\ UNCHANGED <<now, out, win, knn>>
    /\ UNCHANGED ctlVars

NextPredictor ==
    Advance \/ StartRecording \/ AddSample \/ Predict \/ GetRecordingProgress \/ Reset

SpecPredictor == InitPredictor /\ [][NextPredictor]_vars

\* ------------- SpecWindow: windows sampled as the sentence path samples

\* A window is started when none is recording (main.cpp:152), early enough
\* for its duration and one sample interval to pass before the clock of
\* the model stops.
StartWindow ==
    /\ ~recording(sp)
    /\ now + SENTENCE_WINDOW_DURATION_MS + SENTENCE_SAMPLE_INTERVAL_MS <= MaxTime
    /\ sp' = startRecording(sp, now)
    /\ op' = "startRecording"
    /\ ret' = FALSE
    /\ prog' = NoProgress
    /\ UNCHANGED <<now, out, win, knn>>
    /\ UNCHANGED ctlVars

\* A tick on the sentence path: while the window is recording, the sample
\* of the tick is passed to addSample, then getRecordingProgress is read
\* for the progress record of the tick (main.cpp:242-252).
SampleTick ==
    \E sample \in SampleValues :
        LET r == addSample(sp, now, sample)
        IN  /\ recording(sp)
            /\ sp' = r.obj
            /\ ret' = r.result
            /\ op' = "addSample"
            /\ prog' = getRecordingProgress(r.obj, now)
            /\ UNCHANGED <<now, out, win, knn>>
            /\ UNCHANGED ctlVars

NextWindow == Advance \/ StartWindow \/ SampleTick

\* loop() is called again and again, and every call takes time (delay(10)):
\* time keeps advancing and a recording window keeps being sampled.
SpecWindow ==
    /\ InitPredictor
    /\ [][NextWindow]_vars
    /\ WF_vars(Advance)
    /\ WF_vars(SampleTick)

\* ------------------------------- SpecKNN: one run of predictSentenceKNN

InitKNN ==
    /\ InitObject
    /\ InitController
    /\ \E q \in Queries : knn = KnnStart(q)

\* The next row of SENTENCE_TRAINING_DATA / SENTENCE_TRAINING_LABELS: the
\* table is read once, a row per iteration, so each row is chosen as read.
ScanRow ==
    /\ knn.pc = "scan"
    /\ knn.i < SENTENCE_KNN_N_SAMPLES
    /\ \E dist \in {Distance(knn.query, row) : row \in TrainingRows}, label \in Labels :
           knn' = KnnScanRow(knn, dist, label)
    /\ UNCHANGED <<sp, now, op, ret, out, prog, win>>
    /\ UNCHANGED ctlVars

Finish ==
    /\ knn.pc = "scan"
    /\ knn.i >= SENTENCE_KNN_N_SAMPLES
    /\ knn' = KnnFinish(knn)
    /\ UNCHANGED <<sp, now, op, ret, out, prog, win>>
    /\ UNCHANGED ctlVars

NextKNN == ScanRow \/ Finish

SpecKNN == InitKNN /\ [][NextKNN]_vars

\* ------------------------------------------- float and the confidence
\* A float that is not negative is the fraction num / den it stands for.

RECURSIVE Pow2(_)
Pow2(k) == IF k = 0 THEN 1 ELSE 2 * Pow2(k - 1)

RECURSIVE Normalize(_, _, _, _)
\* num / den scaled by a power of two into [2^(p-1), 2^p): the scaled
\* fraction, and the power as up / down.
Normalize(num, den, up, down) ==
    IF num < Pow2(FLT_MANT_DIG - 1) * den
    THEN Normalize(2 * num, den, up, 2 * down)
    ELSE IF num >= Pow2(FLT_MANT_DIG) * den
    THEN Normalize(num, 2 * den, 2 * up, down)
    ELSE [num |-> num, den |-> den, up |-> up, down |-> down]

\* The float nearest to num / den, ties to the even significand.
FloatRound(num, den) ==
    IF num = 0
    THEN [num |-> 0, den |-> 1]
    ELSE LET z    == Normalize(num, den, 1, 1)
             q    == z.num \div z.den
             r    == z.num % z.den
             mant == IF 2 * r > z.den \/ (2 * r = z.den /\ q % 2 = 1) THEN q + 1 ELSE q
         IN  [num |-> mant * z.up, den |-> z.down]

FloatAdd(a, b) == FloatRound(a.num * b.den + b.num * a.den, a.den * b.den)
FloatDiv(a, b) == FloatRound(a.num * b.den, a.den * b.num)
FloatLess(a, b) == a.num * b.den < b.num * a.den
FloatEqual(a, b) == a.num * b.den = b.num * a.den

\* 1.0f
One == [num |-> 1, den |-> 1]

\* *outMeanDist = sumDist / K, for the sum of the K kept distances.
MeanDistance(sumDist) == FloatRound(sumDist, SENTENCE_KNN_N_NEIGHBORS)

\* The confidence that forgets the inverse: 1.0f + meanDist.
Confidence_NoInverse(meanDist) == FloatAdd(One, meanDist)

\* float confidence = 1.0f / (1.0f + meanDist);
Confidence(meanDist) == FloatDiv(One, FloatAdd(One, meanDist))

\* ------------- SpecCorruptTable: the run over a table of arbitrary bytes

\* A row of a table whose label entries are arbitrary bytes (corrupted
\* flash, a generator bug).
ScanStoredRow ==
    /\ knn.pc = "scan"
    /\ knn.i < SENTENCE_KNN_N_SAMPLES
    /\ \E dist \in {Distance(knn.query, row) : row \in TrainingRows}, label \in LabelBytes :
           knn' = KnnScanRow(knn, dist, label)
    /\ UNCHANGED <<sp, now, op, ret, out, prog, win>>
    /\ UNCHANGED ctlVars

\* votes[nearestLabels[i]]++ (line 214) has no test of the index.  With
\* every kept label a class index the run ends as in SpecKNN; with one that
\* is none, the increment is of a byte outside votes[]: the run may crash,
\* or end with any label and any distance.
VoteStored ==
    /\ knn.pc = "scan"
    /\ knn.i >= SENTENCE_KNN_N_SAMPLES
    /\ IF \A j \in NeighborIndices : knn.nearestLabels[j] \in Labels
       THEN knn' = KnnFinish(knn)
       ELSE \E end \in {"done", "crashed"}, label \in LabelBytes,
               sum \in 0..(SENTENCE_KNN_N_NEIGHBORS * MaxDistance) :
                knn' = [ knn EXCEPT !.pc        = end,
                                    !.oob       = TRUE,
                                    !.bestLabel = label,
                                    !.sumDist   = sum ]
    /\ UNCHANGED <<sp, now, op, ret, out, prog, win>>
    /\ UNCHANGED ctlVars

NextCorruptTable == ScanStoredRow \/ VoteStored

SpecCorruptTable == InitKNN /\ [][NextCorruptTable]_vars

\* ---------------------------------------------------- Spec: the firmware

\* sentence_label_names[labelIdx], or "unknown" for an index out of range.
SentenceName(labelIdx) ==
    IF labelIdx < SENTENCE_NUM_CLASSES THEN <<"sentence", labelIdx>> ELSE <<"unknown">>

\* The route with its test negated.
RouteToSentence_Negated(active, s) == ~(active /\ recording(s))

\* if (sentenceModeActive && sentencePredictor.recording()): the sample goes
\* to the window and the gesture classifier is skipped.
RouteToSentence(active, s) == active /\ recording(s)

\* The button as the ticks read it: a press begins when a tick reads LOW
\* after the tick before read HIGH, and lasts while every tick reads LOW.
PressAfter(buttonReading, millis, starts) ==
    IF buttonReading = HIGH
    THEN [press EXCEPT !.prev = HIGH, !.active = FALSE]
    ELSE IF press.prev = HIGH
    THEN [ prev |-> LOW, active |-> TRUE, since |-> millis, last |-> millis,
           idle |-> ~recording(sp), started |-> starts ]
    ELSE [ press EXCEPT !.last    = IF press.active THEN millis ELSE @,
                        !.started = @ \/ (press.active /\ starts) ]

\* One call of loop() (RUN_MODE 1, PREDICTION_MODE 2, sentence model present).
\*   cmd            the last S or E that handleSerialCommands read, if any
\*   buttonReading  digitalRead(PIN_SENTENCE_BUTTON)
\*   skew           what millis() advanced between lines 145 and 148
\*   beep           how long a beep sequence of this tick lasts
\*   sample         the normalized sensor frame
\*   labelIdx       the label the classifier returns for a filled window
\*   pause          delay(10) or delay(100) and the tick's own run time
loop ==
    \E cmd \in {"none", "S", "E"}, buttonReading \in {LOW, HIGH}, skew \in 0..1,
       beep \in 1..MaxStep, sample \in SampleValues,
       labelIdx \in 0..SENTENCE_NUM_CLASSES, pause \in 1..MaxStep :
        LET tButton   == IF cmd = "none" THEN now ELSE now + beep
            debounced == IF buttonReading # lastButtonState
                         THEN tButton ELSE lastDebounceTime
            tStable   == tButton + skew
            edge      == /\ (tStable - debounced) > DEBOUNCE_DELAY_MS
                         /\ buttonReading = LOW
                         /\ lastButtonState = HIGH
            starts    == edge /\ ~recording(sp)
            sp1       == IF starts THEN startRecording(sp, tStable) ELSE sp
            active1   == starts \/ sentenceModeActive
            tSample   == IF starts THEN tStable + beep ELSE tStable
            sentence  == RouteToSentence(active1, sp1)
            r         == addSample(sp1, tSample, sample)
            progress  == getRecordingProgress(r.obj, tSample)
            complete  == sentence /\ r.result
            pr        == predict(r.obj)
            label     == IF pr.classified THEN labelIdx ELSE pr.label
            tDone     == IF complete THEN tSample + beep ELSE tSample
        IN  /\ tDone + pause <= MaxTime
            /\ now' = tDone + pause
            /\ gRecordingActive' = IF cmd = "S" THEN TRUE
                                   ELSE IF cmd = "E" THEN FALSE
                                   ELSE gRecordingActive
            /\ lastDebounceTime' = debounced
            /\ lastButtonState' = buttonReading
            /\ sentenceModeActive' = IF complete THEN FALSE ELSE active1
            /\ sp' = IF ~sentence THEN sp1
                     ELSE IF complete THEN reset(r.obj)
                     ELSE r.obj
            /\ tick' = [ ran       |-> TRUE,
                         calls     |-> (IF starts THEN <<"startRecording">> ELSE << >>)
                                       \o (IF sentence THEN <<"addSample">> ELSE << >>)
                                       \o (IF complete THEN <<"predict", "reset">> ELSE << >>),
                         records   |-> (IF starts THEN <<"sentence_start">> ELSE << >>)
                                       \o (IF sentence THEN <<"progress">> ELSE <<"gesture">>)
                                       \o (IF complete THEN <<"completion">> ELSE << >>),
                         recording |-> recording(sp1),
                         complete  |-> complete,
                         filled    |-> complete /\ r.obj.bufferFilled,
                         progress  |-> IF sentence THEN progress ELSE NoProgress,
                         sentence  |-> IF complete THEN SentenceName(label) ELSE "" ]
            /\ press' = PressAfter(buttonReading, tButton, starts)
            /\ UNCHANGED <<op, ret, out, prog, win, knn>>

Next == loop

Spec == InitPredictor /\ [][Next]_vars

\* ------------------------------------------------------------ claims

\* A step that is one addSample call.
IsAddSample == win'.calls = win.calls + 1

\* The call comes an interval or more after the last accepted sample.
Spaced == win.accepted => now - win.lastAccept >= SENTENCE_SAMPLE_INTERVAL_MS

Elapsed == now - sp.recordingStartTime

RECURSIVE NaiveSort(_)
\* A full sort by repeated selection of the minimum.
NaiveSort(seq) ==
    IF seq = << >>
    THEN << >>
    ELSE LET i == CHOOSE i \in 1..Len(seq) : \A j \in 1..Len(seq) : seq[i] <= seq[j]
         IN  <<seq[i]>> \o NaiveSort(SubSeq(seq, 1, i - 1) \o SubSeq(seq, i + 1, Len(seq)))

\* C1: after the scan over all N rows the K kept distances are the first K
\* entries of a naive full sort of the N row distances.
C1_KSmallest ==
    knn.pc = "done" =>
        /\ Len(knn.dists) = SENTENCE_KNN_N_SAMPLES
        /\ \A d \in 1..Len(knn.dists) : knn.dists[d] < INITIAL_DIST
        /\ knn.nearestDist = SubSeq(NaiveSort(knn.dists), 1, SENTENCE_KNN_N_NEIGHBORS)

\* A finished scan whose first row was kept and later evicted by closer rows.
C1_Witness ==
    /\ knn.pc = "done"
    /\ knn.dists[1] > knn.nearestDist[SENTENCE_KNN_N_NEIGHBORS]
    /\ knn.nearestDist[1] < knn.nearestDist[SENTENCE_KNN_N_NEIGHBORS]

\* C2: the capacity-th accepted sample, arriving before the window
\* duration has elapsed, makes addSample return true with filled set and
\* recording cleared, no earlier call of the window having returned true;
\* every later addSample call without a startRecording in between returns
\* false and leaves the cursor and the buffer contents unchanged.
C2_CapacityCompletion ==
    [][ /\ ( /\ IsAddSample
             /\ sp.isRecording
             /\ Spaced
             /\ sp.bufferIndex = SENTENCE_SAMPLES_PER_WINDOW - 1
             /\ Elapsed < SENTENCE_WINDOW_DURATION_MS )
           => ( /\ ret'
                /\ sp'.bufferFilled
                /\ ~sp'.isRecording
                /\ sp'.bufferIndex = SENTENCE_SAMPLES_PER_WINDOW
                /\ win.trues = 0 )
        /\ ( IsAddSample /\ win.by = "capacity" )
           => ( /\ ~ret'
                /\ sp'.bufferIndex = sp.bufferIndex
                /\ sp'.buffer = sp.buffer )
      ]_vars

\* A window completed by capacity before its duration, and a later call
\* that was refused.
C2_Witness ==
    /\ win.by = "capacity"
    /\ sp.bufferFilled
    /\ sp.lastSampleTime - sp.recordingStartTime < SENTENCE_WINDOW_DURATION_MS
    /\ win.calls > SENTENCE_SAMPLES_PER_WINDOW
    /\ op = "addSample"
    /\ ~ret

\* C3 as stated: every addSample call made while recording at elapsed >=
\* window duration returns true and leaves filled set, recording cleared.
C3_EveryLateCallCompletes ==
    [][ ( /\ IsAddSample
          /\ sp.isRecording
          /\ Elapsed >= SENTENCE_WINDOW_DURATION_MS )
        => ( ret' /\ sp'.bufferFilled /\ ~sp'.isRecording )
      ]_vars

\* C3 amended: an addSample call made while recording at elapsed >= window
\* duration and an interval or more after the last accepted sample returns
\* true and leaves filled set and recording cleared, whatever the cursor;
\* a call made less than an interval after the last accepted sample is
\* dropped and the window stays recording.
C3_LateSpacedCallCompletes ==
    [][ /\ ( /\ IsAddSample
             /\ sp.isRecording
             /\ Elapsed >= SENTENCE_WINDOW_DURATION_MS
             /\ Spaced )
           => ( ret' /\ sp'.bufferFilled /\ ~sp'.isRecording )
        /\ ( /\ IsAddSample
             /\ sp.isRecording
             /\ Elapsed >= SENTENCE_WINDOW_DURATION_MS
             /\ ~Spaced )
           => ( ~ret' /\ sp' = sp )
      ]_vars

\* A window with no sample accepted before the duration elapsed, completed
\* by the fallback on its first accepted sample, the cursor below capacity.
C3_Witness ==
    /\ win.by = "duration"
    /\ sp.bufferFilled
    /\ ~sp.isRecording
    /\ sp.bufferIndex = 1
    /\ sp.bufferIndex < SENTENCE_SAMPLES_PER_WINDOW

\* C4: an addSample call less than the sample interval after the last
\* accepted sample returns false and changes nothing; the cursor of a
\* window equals the number of calls made, while it was recording, an
\* interval or more after the previously accepted sample, is at most the
\* number of calls, and two consecutively accepted samples are an interval
\* or more apart, also across reset and startRecording.
C4_MinimumSpacing ==
    [][ /\ ( IsAddSample /\ ~Spaced ) => ( ~ret' /\ sp' = sp )
        /\ ( IsAddSample /\ sp'.bufferIndex # sp.bufferIndex ) => Spaced
        /\ ( sp'.isRecording \/ sp'.bufferFilled ) => sp'.bufferIndex = win'.spaced
        /\ sp'.bufferIndex <= win'.calls
      ]_vars

\* A new window whose first call was dropped for coming less than an
\* interval after the last sample of the window before.
C4_Witness ==
    /\ sp.isRecording
    /\ sp.bufferIndex = 0
    /\ win.accepted
    /\ win.calls = 1
    /\ op = "addSample"
    /\ ~ret

\* C5: the cursor never exceeds the capacity, every buffer write is at an
\* index below it, and filled implies not recording.
C5_CursorAndFlags ==
    /\ sp.bufferIndex <= SENTENCE_SAMPLES_PER_WINDOW
    /\ sp.isRecording => sp.bufferIndex < SENTENCE_SAMPLES_PER_WINDOW
    /\ sp.bufferFilled => ~sp.isRecording

\* A filled window whose cursor is at the capacity, predict having run on it.
C5_Witness ==
    /\ sp.bufferFilled
    /\ sp.bufferIndex = SENTENCE_SAMPLES_PER_WINDOW
    /\ op = "predict"

\* C6: between one startRecording and the next at most one addSample call
\* returns true, and after it every addSample call returns false.
C6_CompletionOnce ==
    [][ /\ ( IsAddSample /\ win.trues >= 1 ) => ~ret'
        /\ win'.trues <= 1
      ]_vars

\* A window completed by the duration fallback, then a further spaced call
\* past the duration that was refused.
C6_Witness ==
    /\ win.trues = 1
    /\ win.by = "duration"
    /\ op = "addSample"
    /\ ~ret
    /\ now - sp.lastSampleTime >= SENTENCE_SAMPLE_INTERVAL_MS

\* C7 as stated: whenever no recording is active and the button is read
\* HIGH, then LOW for longer than the debounce delay over successive ticks,
\* the controller has called startRecording (and printed sentence_start).
C7_TriggerStarts ==
    ( /\ press.active
      /\ press.idle
      /\ press.last - press.since > DEBOUNCE_DELAY_MS )
    => press.started

\* What the firmware does instead: no tick ever calls startRecording, so no
\* window is ever recording when a route is chosen.
NeverStarts ==
    /\ \A i \in 1..Len(tick.calls) : tick.calls[i] # "startRecording"
    /\ ~tick.recording
    /\ ~sp.isRecording
    /\ ~sentenceModeActive

\* The gesture records a tick printed.
GestureRecords == {i \in 1..Len(tick.records) : tick.records[i] = "gesture"}

AddSampleCalls == {i \in 1..Len(tick.calls) : tick.calls[i] = "addSample"}

VotesOfBest == Votes(knn.nearestLabels)[knn.bestLabel]

\* C11: the label returned has the maximum vote count over the K kept
\* labels, and when several classes share that maximum it is the lowest
\* class index among them.
C11_MajorityTieBreak ==
    knn.pc = "done" =>
        /\ knn.bestLabel \in Labels
        /\ \A c \in Labels :
               /\ Votes(knn.nearestLabels)[c] <= VotesOfBest
               /\ Votes(knn.nearestLabels)[c] = VotesOfBest => knn.bestLabel <= c

\* A finished run in which a second class has as many votes as the one returned.
C11_Witness ==
    /\ knn.pc = "done"
    /\ \E c \in Labels : c # knn.bestLabel /\ Votes(knn.nearestLabels)[c] = VotesOfBest

RECURSIVE StableOrder(_, _)
\* The row indices of rest ordered by (distance, row index).
StableOrder(dists, rest) ==
    IF rest = {}
    THEN << >>
    ELSE LET r == CHOOSE r \in rest :
                      \A q \in rest : \/ dists[r] < dists[q]
                                      \/ (dists[r] = dists[q] /\ r <= q)
         IN  <<r>> \o StableOrder(dists, rest \ {r})

\* The rows read so far in the order (distance, row index).
RowsInOrder == StableOrder(knn.dists, 1..Len(knn.dists))

\* C12: the kept neighbours are the first K rows under the ordering
\* (distance, row index), slot by slot with their labels: a row whose
\* distance equals the K-th kept distance is discarded, and among kept rows
\* of equal distance the row of the smaller index sits earlier.
C12_StableTies ==
    LET order == RowsInOrder
    IN  \A j \in NeighborIndices :
            IF j <= Len(knn.dists)
            THEN /\ knn.nearestDist[j] = knn.dists[order[j]]
                 /\ knn.nearestLabels[j] = knn.labels[order[j]]
            ELSE /\ knn.nearestDist[j] = INITIAL_DIST
                 /\ knn.nearestLabels[j] = 0

\* A finished run whose last two kept rows have one distance and different
\* labels, a later row of that distance and of another label than the K-th
\* kept one having been discarded.
C12_Witness ==
    /\ knn.pc = "done"
    /\ knn.nearestDist[SENTENCE_KNN_N_NEIGHBORS - 1] = knn.nearestDist[SENTENCE_KNN_N_NEIGHBORS]
    /\ knn.nearestLabels[SENTENCE_KNN_N_NEIGHBORS - 1] # knn.nearestLabels[SENTENCE_KNN_N_NEIGHBORS]
    /\ knn.dists[Len(knn.dists)] = knn.nearestDist[SENTENCE_KNN_N_NEIGHBORS]
    /\ knn.labels[Len(knn.dists)] # knn.nearestLabels[SENTENCE_KNN_N_NEIGHBORS]
    /\ RowsInOrder[SENTENCE_KNN_N_NEIGHBORS] < Len(knn.dists)

\* The same window is recording before and after the step.
SameWindow ==
    /\ sp.isRecording
    /\ sp'.isRecording
    /\ sp'.recordingStartTime = sp.recordingStartTime

\* C13: getRecordingProgress returns 0 whenever the buffer is not recording
\* (before any startRecording, after completion, after reset); while
\* recording it returns min(1, elapsed / window duration), which never
\* exceeds 1 and does not decrease as time advances within one window.
C13_Progress ==
    [][ /\ ( op' = "getRecordingProgress" /\ ~sp'.isRecording ) => prog'.num = 0
        /\ ( op' = "getRecordingProgress" /\ sp'.isRecording ) =>
               /\ prog'.den = SENTENCE_WINDOW_DURATION_MS
               /\ prog'.num = IF now' - sp'.recordingStartTime < SENTENCE_WINDOW_DURATION_MS
                              THEN now' - sp'.recordingStartTime
                              ELSE SENTENCE_WINDOW_DURATION_MS
               /\ prog'.num <= prog'.den
        /\ SameWindow =>
               /\ getRecordingProgress(sp', now').den = getRecordingProgress(sp, now).den
               /\ getRecordingProgress(sp', now').num >= getRecordingProgress(sp, now).num
               /\ getRecordingProgress(sp', now').num <= getRecordingProgress(sp', now').den
      ]_vars

\* getRecordingProgress called on a window still recording past its
\* duration: the value is clamped to 1.
C13_Witness ==
    /\ op = "getRecordingProgress"
    /\ sp.isRecording
    /\ Elapsed > SENTENCE_WINDOW_DURATION_MS
    /\ prog.num = prog.den

\* C14: predict called while the buffer is not filled (idle, recording or
\* after reset) returns label 0 and the distance 999999 without running the
\* classifier, and leaves the cursor, the flags, the timestamps and the
\* buffer contents unchanged.
C14_PredictNotFilled ==
    [][ ( op' = "predict" /\ ~sp.bufferFilled ) =>
            /\ ~out'.classified
            /\ out'.label = 0
            /\ out'.meanDistance = 999999
            /\ sp' = sp
      ]_vars

\* predict called on a window that is recording, samples stored, not filled.
C14_Witness ==
    /\ op = "predict"
    /\ sp.isRecording
    /\ sp.bufferIndex > 0
    /\ ~sp.bufferFilled
    /\ out.meanDistance = 999999

\* C15 as stated, for the classifier: whatever bytes the label table holds,
\* the vote counting indexes no array outside its bounds.
C15_NoOutOfBounds == ~knn.oob

\* C16: while addSample keeps being called and time keeps advancing, every
\* recording that is started completes: from any state with recording set,
\* a state with filled set and recording cleared is reached, also when
\* fewer than capacity samples were accepted.
C16_EventuallyCompletes ==
    sp.isRecording ~> (sp.bufferFilled /\ ~sp.isRecording)

\* A window completed by an addSample call past its duration with fewer
\* samples than the capacity, calls having been dropped on the way.
C16_Witness ==
    /\ op = "addSample"
    /\ ret
    /\ sp.bufferFilled
    /\ ~sp.isRecording
    /\ sp.bufferIndex < SENTENCE_SAMPLES_PER_WINDOW
    /\ sp.lastSampleTime - sp.recordingStartTime > SENTENCE_WINDOW_DURATION_MS

\* The sums of K kept distances a run of the classifier can end with.
DistanceSums == 0..(SENTENCE_KNN_N_NEIGHBORS * MaxDistance)

\* The mean distance of each sum, and its confidence.
MeanOfSum == [sum \in DistanceSums |-> MeanDistance(sum)]
ConfidenceOfSum == [sum \in DistanceSums |-> Confidence(MeanDistance(sum))]

\* The mean distance predict reports when the buffer is not filled, and
\* its confidence.
NotFilledMean == FloatRound(NOT_FILLED_DISTANCE, 1)
NotFilledConfidence == Confidence(NotFilledMean)

\* The confidence is greater than 0 and at most 1.
InUnitRange(c) == FloatLess([num |-> 0, den |-> 1], c) /\ ~FloatLess(One, c)

\* C17 as stated: the confidence of the mean distance a run ends with is
\* greater than 0 and at most 1, is exactly 1 for the mean distance 0, and
\* every greater mean distance has a strictly smaller confidence.
C17_StrictlyDecreasing ==
    knn.pc = "done" =>
        /\ knn.sumDist \in DistanceSums
        /\ InUnitRange(ConfidenceOfSum[knn.sumDist])
        /\ MeanOfSum[knn.sumDist].num = 0 => FloatEqual(ConfidenceOfSum[knn.sumDist], One)
        /\ InUnitRange(NotFilledConfidence)
        /\ FloatLess(MeanOfSum[knn.sumDist], NotFilledMean)
               => FloatLess(NotFilledConfidence, ConfidenceOfSum[knn.sumDist])
        /\ \A sum \in DistanceSums :
               FloatLess(MeanOfSum[knn.sumDist], MeanOfSum[sum])
                   => FloatLess(ConfidenceOfSum[sum], ConfidenceOfSum[knn.sumDist])

\* C17 amended: the confidence of every mean distance the classifier or
\* the not-filled sentinel produces is greater than 0 and at most 1, is
\* exactly 1 for the mean distance 0, and no greater mean distance has a
\* greater confidence; two mean distances may round to one confidence.
C17_NeverIncreasing ==
    knn.pc = "done" =>
        /\ knn.sumDist \in DistanceSums
        /\ InUnitRange(ConfidenceOfSum[knn.sumDist])
        /\ MeanOfSum[knn.sumDist].num = 0 => FloatEqual(ConfidenceOfSum[knn.sumDist], One)
        /\ InUnitRange(NotFilledConfidence)
        /\ FloatLess(MeanOfSum[knn.sumDist], NotFilledMean)
               => ~FloatLess(ConfidenceOfSum[knn.sumDist], NotFilledConfidence)
        /\ \A sum \in DistanceSums :
               FloatLess(MeanOfSum[knn.sumDist], MeanOfSum[sum])
                   => ~FloatLess(ConfidenceOfSum[knn.sumDist], ConfidenceOfSum[sum])

\* A finished run whose mean distance has the confidence of a smaller mean
\* distance that a run can also end with.
C17_Witness ==
    /\ knn.pc = "done"
    /\ \E sum \in DistanceSums :
           /\ FloatLess(MeanOfSum[sum], MeanOfSum[knn.sumDist])
           /\ FloatEqual(ConfidenceOfSum[sum], ConfidenceOfSum[knn.sumDist])

\* The accepted samples in arrival order, then zero for the rows never written.
SamplesThenZeros ==
    [d \in FeatureIndices |-> IF d <= Len(win.samples) THEN win.samples[d] ELSE 0]

C20_ProgressRecords ==
    op = "addSample" =>
        /\ prog.den = SENTENCE_WINDOW_DURATION_MS
        /\ prog.num = IF Elapsed < SENTENCE_WINDOW_DURATION_MS
                      THEN Elapsed ELSE SENTENCE_WINDOW_DURATION_MS

=============================================================================
